---- MODULE Spec2Model ----
(***************************************************************************)
(* Model of the NxNxN cube of src/src/model.py: Cube (construction, the    *)
(* rotate notation resolver and the bulk turn) and Cube_Piece (the colour  *)
(* accessor and the quarter turn).                                         *)
(*                                                                         *)
(* Coordinates are held doubled (2*v), so that the half-integer            *)
(* coordinates of even sizes (-0.5, 0.5, 1.5 ...) are the odd integers     *)
(* (-1, 1, 3 ...) and those of odd sizes are the even integers.  Strings   *)
(* that the code indexes (the rotate direction) are sequences of           *)
(* one-character strings; Python's index 0 is index 1 here.                *)
(***************************************************************************)
EXTENDS Integers, Sequences, FiniteSets, TLC

(***************************************************************************)
(* Bounds of the model.                                                    *)
(***************************************************************************)
\* Cube.rotate calls in one run, failed ones included
MaxCalls == 2
\* quarter turns applied to a stand-alone piece in one run
MaxTurns == 4

\* sizes handed to the constructor: below 2, even and odd
SizeInputs == {-1, 0, 1, 2, 3, 5, 7, 9}

(***************************************************************************)
(* _src.py: the colour table.                                              *)
(***************************************************************************)
None == << >>
COLOURS_B == <<2, "B">>
COLOURS_G == <<3, "G">>
COLOURS_O == <<4, "O">>
COLOURS_R == <<1, "R">>
COLOURS_W == <<0, "W">>
COLOURS_Y == <<5, "Y">>
COLOURS_ALL == {COLOURS_B, COLOURS_G, COLOURS_O, COLOURS_R, COLOURS_W, COLOURS_Y}

(***************************************************************************)
(* Cube_Piece                                                              *)
(***************************************************************************)
\* Cube_Piece.__init__
Cube_Piece(pos, col_xp, col_xn, col_yp, col_yn, col_zp, col_zn) ==
    [pos |-> pos,
     col_xp |-> col_xp, col_xn |-> col_xn,
     col_yp |-> col_yp, col_yn |-> col_yn,
     col_zp |-> col_zp, col_zn |-> col_zn]

\* Cube_Piece.colours (getter): ((+x,-x),(+y,-y),(+z,-z))
colours(self) ==
    << <<self.col_xp, self.col_xn>>,
       <<self.col_yp, self.col_yn>>,
       <<self.col_zp, self.col_zn>> >>

\* Cube_Piece.colours (setter).  The target list of the second pair is
\* (self._col_yn, self._col_yn): _col_yn is assigned data[1][0] and then
\* data[1][1], left to right, and _col_yp is not assigned at all.
set_colours(self, data) ==
    LET s1 == [self EXCEPT !.col_xp = data[1][1]]
        s2 == [s1 EXCEPT !.col_xn = data[1][2]]
        s3 == [s2 EXCEPT !.col_yn = data[2][1]]
        s4 == [s3 EXCEPT !.col_yn = data[2][2]]
        s5 == [s4 EXCEPT !.col_zp = data[3][1]]
        s6 == [s5 EXCEPT !.col_zn = data[3][2]]
    IN  s6

\* Cube_Piece.rotate: the axis check
AxisOk(axis) == axis \in {"x", "y", "z"}

\* A position map with the sign of the x turn's y component lost.
rotate_pos_unsigned(pos, axis) ==
    CASE axis = "x" -> <<pos[1], pos[3], pos[2]>>
      [] axis = "y" -> <<pos[3], pos[2], -1 * pos[1]>>
      [] axis = "z" -> <<-1 * pos[2], pos[1], pos[3]>>

\* A position map that flips a coordinate as a list index is flipped,
\* v to -1 - v (doubled: -2 - v), in place of -v.
rotate_pos_index_flip(pos, axis) ==
    CASE axis = "x" -> <<pos[1], -2 - pos[3], pos[2]>>
      [] axis = "y" -> <<pos[3], pos[2], -2 - pos[1]>>
      [] axis = "z" -> <<-2 - pos[2], pos[1], pos[3]>>

\* Cube_Piece.rotate: "rotate position"
rotate_pos(pos, axis) ==
    CASE axis = "x" -> <<pos[1], -1 * pos[3], pos[2]>>
      [] axis = "y" -> <<pos[3], pos[2], -1 * pos[1]>>
      [] axis = "z" -> <<-1 * pos[2], pos[1], pos[3]>>

\* A colour tuple with the two pairs of the x turn exchanged unflipped.
rotate_colours_swapped(c, axis) ==
    CASE axis = "x" -> << c[1], <<c[3][1], c[3][2]>>, <<c[2][2], c[2][1]>> >>
      [] axis = "y" -> << <<c[3][1], c[3][2]>>, c[2], <<c[1][2], c[1][1]>> >>
      [] axis = "z" -> << <<c[2][2], c[2][1]>>, <<c[1][1], c[1][2]>>, c[3] >>

\* A colour tuple with the pair on the axis of the turn flipped.
rotate_colours_axis_flipped(c, axis) ==
    CASE axis = "x" -> << <<c[1][2], c[1][1]>>, <<c[3][2], c[3][1]>>, <<c[2][1], c[2][2]>> >>
      [] axis = "y" -> << <<c[3][1], c[3][2]>>, <<c[2][2], c[2][1]>>, <<c[1][2], c[1][1]>> >>
      [] axis = "z" -> << <<c[2][2], c[2][1]>>, <<c[1][1], c[1][2]>>, <<c[3][2], c[3][1]>> >>

\* Cube_Piece.rotate: "move colours", the tuple handed to the setter
rotate_colours(c, axis) ==
    CASE axis = "x" -> << c[1], <<c[3][2], c[3][1]>>, <<c[2][1], c[2][2]>> >>
      [] axis = "y" -> << <<c[3][1], c[3][2]>>, c[2], <<c[1][2], c[1][1]>> >>
      [] axis = "z" -> << <<c[2][2], c[2][1]>>, <<c[1][1], c[1][2]>>, c[3] >>

\* Cube_Piece.rotate on a valid axis: the position, then the colours
piece_rotate(self, axis) ==
    LET moved == [self EXCEPT !.pos = rotate_pos(self.pos, axis)]
    IN  set_colours(moved, rotate_colours(colours(self), axis))

\* Cube_Piece.rotate: the error it raises, "none" when it returns
piece_rotate_err(axis) == IF AxisOk(axis) THEN "none" ELSE "ValueError"

\* A turn that moves the position before it looks at the axis token.
piece_rotate_pce_unchecked(self, axis) ==
    IF AxisOk(axis) THEN piece_rotate(self, axis)
    ELSE [self EXCEPT !.pos = rotate_pos(self.pos, "x")]

\* Cube_Piece.rotate: the piece it leaves
piece_rotate_pce(self, axis) ==
    IF piece_rotate_err(axis) = "none" THEN piece_rotate(self, axis) ELSE self

\* n quarter turns in a row ("for _ in range(num_rotations)")
RECURSIVE rotate_n(_, _, _)
rotate_n(self, axis, n) ==
    IF n = 0 THEN self ELSE rotate_n(piece_rotate(self, axis), axis, n - 1)

(***************************************************************************)
(* Cube.__init__                                                           *)
(***************************************************************************)
\* A constructor argument: its Python type and, for numbers, its value.
\* isinstance(size, int) holds of int and of bool.
IsInt(a) == a.type \in {"int", "bool"}

\* "size < 2" with the bound one too low
size_too_small_off(n) == n < 1

\* "if size < 2"
size_too_small(n) == n < 2

\* Cube.__init__: the error it raises, "none" when it returns
new_err(a) ==
    IF ~IsInt(a) THEN "TypeError"
    ELSE IF size_too_small(a.val) THEN "ValueError"
    ELSE "none"

\* self.odd
odd(n) == n % 2 = 1

\* self.edge_val (doubled): (size // 2) - 0.5 or (size - 1) // 2
Edge_val(n) ==
    IF ~odd(n) THEN 2 * (n \div 2) - 1 ELSE 2 * ((n - 1) \div 2)

\* self.coord_vals (doubled).  Even: (i//10)+0.5 for i in
\* range(int(-10*edge_val), int(10*edge_val)); odd: range(-edge_val, edge_val+1)
Coord_vals(n) ==
    LET e2 == Edge_val(n)
    IN  IF ~odd(n)
        THEN [k \in 1..(10 * e2) |-> 2 * ((-5 * e2 + k - 1) \div 10) + 1]
        ELSE [k \in 1..(e2 + 1) |-> 2 * (-1 * (e2 \div 2) + k - 1)]

\* A test that skips no piece.
Visible_any(p, e2) == TRUE

\* "skip all non-visible pieces"
Abs(v) == IF v < 0 THEN -v ELSE v
Visible(p, e2) == Abs(p[1]) = e2 \/ Abs(p[2]) = e2 \/ Abs(p[3]) = e2

\* The piece created at (i, j, k)
NewPiece(p, e2) ==
    Cube_Piece(p,
        IF p[1] = e2 THEN COLOURS_B ELSE None,
        IF p[1] = -1 * e2 THEN COLOURS_G ELSE None,
        IF p[2] = e2 THEN COLOURS_W ELSE None,
        IF p[2] = -1 * e2 THEN COLOURS_Y ELSE None,
        IF p[3] = e2 THEN COLOURS_R ELSE None,
        IF p[3] = -1 * e2 THEN COLOURS_O ELSE None)

\* "create cube pieces": the three nested loops over coord_vals, in order
Pieces(cv, e2) ==
    LET L == Len(cv)
        all == [n \in 1..(L * L * L) |->
                  << cv[((n - 1) \div (L * L)) + 1],
                     cv[(((n - 1) \div L) % L) + 1],
                     cv[((n - 1) % L) + 1] >>]
        vis == SelectSeq(all, LAMBDA p : Visible(p, e2))
    IN  [n \in 1..Len(vis) |-> NewPiece(vis[n], e2)]

\* No cube: the constructor has not returned one
NoCube ==
    [size |-> 0, odd |-> FALSE, edge_val |-> 0, coord_vals |-> << >>, pcs |-> << >>]

\* The cube Cube(size) holds when the constructor returns
NewCube(n) ==
    [size |-> n, odd |-> odd(n), edge_val |-> Edge_val(n),
     coord_vals |-> Coord_vals(n), pcs |-> Pieces(Coord_vals(n), Edge_val(n))]

(***************************************************************************)
(* Cube.rotate                                                             *)
(***************************************************************************)
\* _s*(i+1): the letter s repeated k times
Rep(s, k) == [i \in 1..k |-> s]

_directions_outer == {"B", "D", "F", "L", "R", "T"}
_directions_rotate == {"x", "y", "z"}
InnerLetters == {"b", "d", "f", "l", "r", "t"}

\* _directions_inner: _s*(i+1) for i in range((self.size-2)//2)
_directions_inner(n) ==
    {Rep(s, i + 1) : s \in InnerLetters, i \in 0..(((n - 2) \div 2) - 1)}

\* valid_directions
valid_directions(n) ==
    LET base == {<<s>> : s \in _directions_outer} \cup _directions_inner(n)
                \cup {<<s>> : s \in _directions_rotate}
    IN  {b \o suffix : b \in base, suffix \in {<< >>, <<"'">>, <<"2">>}}
        \cup {b \o <<"w">> : b \in _directions_inner(n)}

\* "if direction not in valid_directions"
DirectionOk(n, direction) == direction \in valid_directions(n)

\* The key of the axis table: direction[0], direction[1] and direction[2],
\* each tested against the letters of one axis
AxisKey(direction) ==
    << direction[1] \in {"x", "l", "L", "r", "R"},
       direction[2] \in {"y", "d", "D", "t", "T"},
       direction[3] \in {"z", "b", "B", "f", "F"} >>

\* "calculate axis to rotate": the error of the indexing and of the lookup.
\* direction[1] and direction[2] are read before the table is consulted.
axis_err(direction) ==
    IF Len(direction) < 3 THEN "IndexError"
    ELSE IF AxisKey(direction) \notin
              {<<TRUE, FALSE, FALSE>>, <<FALSE, TRUE, FALSE>>, <<FALSE, FALSE, TRUE>>}
         THEN "KeyError"
         ELSE "none"

\* axis (as the index into pos, from 1) and axis_str
axis_of(direction) ==
    CASE AxisKey(direction) = <<TRUE, FALSE, FALSE>> -> <<1, "x">>
      [] AxisKey(direction) = <<FALSE, TRUE, FALSE>> -> <<2, "y">>
      [] AxisKey(direction) = <<FALSE, FALSE, TRUE>> -> <<3, "z">>

\* axis_negative
axis_negative(direction) == direction[1] \in {"f", "F", "r", "R", "t", "T"}

\* direction[-1]
Last(direction) == direction[Len(direction)]

\* The table with the quarter and the three-quarter turn exchanged.
num_rotations_mirrored(direction) ==
    LET key == <<axis_negative(direction), Last(direction) = "2", Last(direction) = "'">>
    IN  CASE key = <<TRUE, FALSE, FALSE>> -> 1
          [] key = <<TRUE, TRUE, FALSE>> -> 2
          [] key = <<TRUE, FALSE, TRUE>> -> 3
          [] key = <<FALSE, FALSE, FALSE>> -> 3
          [] key = <<FALSE, TRUE, FALSE>> -> 2
          [] key = <<FALSE, FALSE, TRUE>> -> 1

\* num_rotations
num_rotations(direction) ==
    LET key == <<axis_negative(direction), Last(direction) = "2", Last(direction) = "'">>
    IN  CASE key = <<TRUE, FALSE, FALSE>> -> 3
          [] key = <<TRUE, TRUE, FALSE>> -> 2
          [] key = <<TRUE, FALSE, TRUE>> -> 1
          [] key = <<FALSE, FALSE, FALSE>> -> 1
          [] key = <<FALSE, TRUE, FALSE>> -> 2
          [] key = <<FALSE, FALSE, TRUE>> -> 3

\* direction.count(direction[0])
Count(direction) ==
    Cardinality({k \in 1..Len(direction) : direction[k] = direction[1]})

\* 'w' in direction
Wide(direction) == \E k \in 1..Len(direction) : direction[k] = "w"

\* One pass of "for i, val in enumerate(self.coord_vals)": whether val is
\* appended to layer_vals (i counts from 0)
InLayer(self, direction, i, val) ==
    LET d0 == direction[1]
        cnt == Count(direction)
        w == Wide(direction)
    IN  IF d0 \in {"x", "y", "z"} THEN TRUE
        ELSE IF val = -1 * self.edge_val
                /\ (d0 \in {"B", "D", "L"} \/ (d0 \in {"b", "d", "l"} /\ w))
        THEN TRUE
        ELSE IF val = self.edge_val
                /\ (d0 \in {"F", "R", "T"} \/ (d0 \in {"f", "r", "t"} /\ w))
        THEN TRUE
        ELSE IF d0 \in {"l", "f", "t"}
        THEN ((self.size - 1 - i) = cnt) \/ ((self.size - 1 - i) < cnt /\ w)
        ELSE IF d0 \in {"r", "b", "d"}
        THEN (i = cnt) \/ (i < cnt /\ w)
        ELSE FALSE

\* layer_vals
layer_vals(self, direction) ==
    LET idx == SelectSeq([k \in 1..Len(self.coord_vals) |-> k],
                         LAMBDA k : InLayer(self, direction, k - 1, self.coord_vals[k]))
    IN  [k \in 1..Len(idx) |-> self.coord_vals[idx[k]]]

\* "val in layer_vals"
Elems(seq) == {seq[k] : k \in 1..Len(seq)}

\* "rotate pieces"
turn_pieces(self, direction) ==
    LET ax == axis_of(direction)
        lv == Elems(layer_vals(self, direction))
        n == num_rotations(direction)
    IN  [k \in 1..Len(self.pcs) |->
            IF self.pcs[k].pos[ax[1]] \in lv
            THEN rotate_n(self.pcs[k], ax[2], n)
            ELSE self.pcs[k]]

\* Cube.rotate: the error it raises, "none" when it returns
rotate_err(self, direction) ==
    IF ~DirectionOk(self.size, direction) THEN "ValueError" ELSE axis_err(direction)

\* The axis Cube.rotate resolved, "" when it raised before resolving one
rotate_axis(self, direction) ==
    IF rotate_err(self, direction) = "none" THEN axis_of(direction)[2] ELSE ""

\* A rotate that turns the pieces before it looks at the token.
rotate_pcs_unchecked(self, direction) ==
    IF Len(direction) >= 3 /\ axis_err(direction) = "none"
    THEN turn_pieces(self, direction)
    ELSE self.pcs

\* Cube.rotate: the pieces it leaves
rotate_pcs(self, direction) ==
    IF rotate_err(self, direction) = "none"
    THEN turn_pieces(self, direction)
    ELSE self.pcs

(***************************************************************************)
(* Cube._get_layout                                                        *)
(***************************************************************************)
Faces == {"B", "D", "F", "L", "R", "T"}

\* "setting up face parameters": col_axis, col_polarity, axis_x, axis_y
\* (as indexes from 1), x_polarity, y_polarity
FaceTable(layer) ==
    CASE layer = "R" -> <<1, 1, 3, 2, -1, -1>>
      [] layer = "T" -> <<2, 1, 1, 3, 1, 1>>
      [] layer = "F" -> <<3, 1, 1, 2, 1, -1>>
      [] layer = "L" -> <<1, 2, 3, 2, 1, -1>>
      [] layer = "B" -> <<3, 2, 1, 2, -1, -1>>
      [] layer = "D" -> <<2, 2, 1, 3, 1, -1>>

\* list.index: the first index (from 0) holding v, -1 when there is none
\* (where Python raises ValueError)
Index(seq, v) ==
    IF \E k \in 1..Len(seq) : seq[k] = v
    THEN (CHOOSE k \in 1..Len(seq) :
              seq[k] = v /\ \A j \in 1..(k - 1) : seq[j] # v) - 1
    ELSE -1

\* the colour of pce that faces the layer
FaceColour(pce, layer) ==
    colours(pce)[FaceTable(layer)[1]][FaceTable(layer)[2]]

\* the row index that pce is written at
RowIndex(self, pce, layer) ==
    Index(self.coord_vals, pce.pos[FaceTable(layer)[4]] * FaceTable(layer)[6])

\* the column index that pce is written at
ColIndex(self, pce, layer) ==
    Index(self.coord_vals, pce.pos[FaceTable(layer)[3]] * FaceTable(layer)[5])

\* the error of the write of one piece into the size x size grid
WriteErr(self, pce, layer) ==
    IF FaceColour(pce, layer) = None THEN "none"
    ELSE IF RowIndex(self, pce, layer) = -1 THEN "ValueError"
    ELSE IF RowIndex(self, pce, layer) >= self.size THEN "IndexError"
    ELSE IF ColIndex(self, pce, layer) = -1 THEN "ValueError"
    ELSE IF ColIndex(self, pce, layer) >= self.size THEN "IndexError"
    ELSE "none"

\* Cube._get_layout: the error it raises, "none" when it returns
get_layout_err(self, layer) ==
    IF layer \notin Faces THEN "ValueError"
    ELSE LET bad == {k \in 1..Len(self.pcs) : WriteErr(self, self.pcs[k], layer) # "none"}
         IN  IF bad = {} THEN "none"
             ELSE WriteErr(self, self.pcs[CHOOSE k \in bad : \A j \in bad : k <= j], layer)

\* the pieces that write cell [r][c] (from 0), in the order of pcs
Writers(self, layer, r, c) ==
    {k \in 1..Len(self.pcs) :
        /\ FaceColour(self.pcs[k], layer) # None
        /\ RowIndex(self, self.pcs[k], layer) = r
        /\ ColIndex(self, self.pcs[k], layer) = c}

\* face: '' where no piece writes, else the label of the last piece that does
FaceGrid(self, layer) ==
    [r \in 1..self.size |->
        [c \in 1..self.size |->
            LET w == Writers(self, layer, r - 1, c - 1)
            IN  IF w = {} THEN ""
                ELSE FaceColour(self.pcs[CHOOSE k \in w : \A j \in w : j <= k], layer)[2]]]

\* Cube._get_layout: what it returns when it returns
get_layout(self, layer, face_only) ==
    IF face_only THEN FaceGrid(self, layer) ELSE << >>

\* A read that takes the pieces it paints out of the cube.
get_layout_cube_popping(self, layer) ==
    IF layer \in Faces
    THEN [self EXCEPT !.pcs = SelectSeq(self.pcs,
                                 LAMBDA pce : FaceColour(pce, layer) = None)]
    ELSE self

\* Cube._get_layout: the cube it leaves.  The grid is a local list, filled
\* from reads of size, pcs, colours, pos and coord_vals; no attribute of the
\* cube or of a piece is assigned, whether the read returns or raises.
get_layout_cube(self, layer) == self

\* Cube.layout: the faces it reads, in order (Back, Down, Front, Left,
\* Right, Top), each by _get_layout(face, True)
LayoutOrder == <<"B", "D", "F", "L", "R", "T">>

\* Cube.layout: the error it raises, that of the first face whose read raises
layout_err(self) ==
    LET bad == {i \in 1..6 : get_layout_err(self, LayoutOrder[i]) # "none"}
    IN  IF bad = {} THEN "none"
        ELSE get_layout_err(self, LayoutOrder[CHOOSE i \in bad : \A j \in bad : i <= j])

\* Cube.layout: the cube it leaves, that of its reads up to the first that
\* raises
RECURSIVE layout_reads(_, _)
layout_reads(self, i) ==
    IF i > 6 THEN self
    ELSE IF get_layout_err(self, LayoutOrder[i]) # "none"
         THEN get_layout_cube(self, LayoutOrder[i])
         ELSE layout_reads(get_layout_cube(self, LayoutOrder[i]), i + 1)

layout_cube(self) == layout_reads(self, 1)

(***************************************************************************)
(* Inputs                                                                  *)
(***************************************************************************)
\* constructor arguments
SizeArgs ==
    {[type |-> "int", val |-> n] : n \in SizeInputs}
    \cup {[type |-> "bool", val |-> 1], [type |-> "float", val |-> 3],
          [type |-> "str", val |-> 3]}

\* a token: a letter repeated k times and a suffix
Tok(s, k, suffix) == Rep(s, k) \o suffix

\* rotate tokens: outer faces, whole-cube turns, inner layers one to three
\* deep, plain, primed, doubled and wide, and tokens of no grammar
DirectionInputs ==
    { Tok("R", 1, << >>), Tok("R", 1, <<"'">>), Tok("R", 1, <<"2">>),
      Tok("L", 1, << >>), Tok("T", 1, <<"'">>), Tok("F", 1, <<"2">>),
      Tok("B", 1, << >>), Tok("D", 1, <<"'">>),
      Tok("x", 1, << >>), Tok("y", 1, <<"'">>), Tok("z", 1, <<"2">>),
      Tok("r", 1, << >>), Tok("l", 1, <<"'">>), Tok("f", 1, <<"w">>),
      Tok("r", 2, << >>), Tok("r", 2, <<"'">>), Tok("r", 2, <<"w">>),
      Tok("l", 2, <<"2">>), Tok("t", 2, <<"'">>), Tok("d", 2, <<"w">>),
      Tok("f", 2, <<"'">>), Tok("b", 2, <<"w">>),
      Tok("f", 3, << >>), Tok("b", 3, <<"'">>), Tok("t", 3, <<"w">>),
      Tok("r", 8, << >>),
      Tok("M", 1, << >>), Tok("R", 1, <<"w">>), Tok("x", 1, <<"w">>),
      << >> }

\* stand-alone pieces: positions of the size 2 and size 3 coordinate systems
PosInputs ==
    {<<a, b, c>> : a \in {-2, 0, 2}, b \in {-2, 0, 2}, c \in {-2, 0, 2}}
    \cup {<<a, b, c>> : a \in {-1, 1}, b \in {-1, 1}, c \in {-1, 1}}

\* a piece with all six slots painted, each its own colour
FullPiece(p) ==
    Cube_Piece(p, COLOURS_B, COLOURS_G, COLOURS_W, COLOURS_Y, COLOURS_R, COLOURS_O)

\* a piece with the slots of mask painted
MaskPiece(p, mask) ==
    Cube_Piece(p,
        IF 1 \in mask THEN COLOURS_B ELSE None,
        IF 2 \in mask THEN COLOURS_G ELSE None,
        IF 3 \in mask THEN COLOURS_W ELSE None,
        IF 4 \in mask THEN COLOURS_Y ELSE None,
        IF 5 \in mask THEN COLOURS_R ELSE None,
        IF 6 \in mask THEN COLOURS_O ELSE None)

PieceInputs ==
    {FullPiece(p) : p \in PosInputs}
    \cup {NewPiece(p, 2) : p \in {q \in PosInputs : Visible(q, 2)}}
    \cup {NewPiece(p, 1) : p \in {q \in PosInputs : Visible(q, 1)}}
    \cup {MaskPiece(<<2, 0, -2>>, mask) : mask \in SUBSET (1..6)}
    \cup {Cube_Piece(<<1, -1, 1>>, COLOURS_W, COLOURS_W, COLOURS_R, None, COLOURS_R, None)}

AxisInputs == {"x", "y", "z", "w"}

\* rotate tokens of the runs with face reads: one that raises on every size,
\* one that turns an x layer of the sizes from 7 and one that turns y layers
\* of size 9
ReadDirections ==
    { Tok("R", 1, << >>), Tok("r", 2, <<"'">>), Tok("t", 3, <<"w">>) }

\* _get_layout arguments: the six faces and a letter that is no face, with
\* face_only set, and a face and the other letter with face_only left False
LayerInputs ==
    {<<f, TRUE>> : f \in Faces \cup {"X"}} \cup {<<"R", FALSE>>, <<"X", FALSE>>}

NoPiece == Cube_Piece(<<0, 0, 0>>, None, None, None, None, None, None)

(***************************************************************************)
(* State                                                                   *)
(***************************************************************************)
VARIABLES
    cube,       \* the Cube: size, odd, edge_val, coord_vals, pcs (NoCube: none)
    pce,        \* a stand-alone Cube_Piece
    op,         \* the last call: "init", "new", "rotate", "_get_layout", "layout",
                \* "piece_new", "piece_rotate"
    arg,        \* the argument of the last Cube(...) call
    direction,  \* the argument of the last Cube.rotate call
    axis,       \* the axis of the last turn
    err,        \* the error the last call raised, "none" when it returned
    old_pcs,    \* cube.pcs before the last Cube.rotate call
    old_pce,    \* pce before the last Cube_Piece.rotate call
    pce0,       \* pce as constructed
    trail,      \* the axes of the turns of pce so far
    calls,      \* Cube.rotate calls made
    layer_arg,  \* the arguments (layer, face_only) of the last call, if a face read
    old_cube    \* the cube before the last call on it

vars == <<cube, pce, op, arg, direction, axis, err, old_pcs, old_pce, pce0, trail,
          calls, layer_arg, old_cube>>

NoArg == [type |-> "none", val |-> 0]
NoLayer == <<"", FALSE>>

\* Nothing constructed yet
Init ==
    /\ cube = NoCube
    /\ pce = NoPiece
    /\ op = "init"
    /\ arg = NoArg
    /\ direction = << >>
    /\ axis = ""
    /\ err = "none"
    /\ old_pcs = << >>
    /\ old_pce = NoPiece
    /\ pce0 = NoPiece
    /\ trail = << >>
    /\ calls = 0
    /\ layer_arg = NoLayer
    /\ old_cube = NoCube

\* Cube(a)
New(a) ==
    /\ cube = NoCube
    /\ op \in {"init", "new"}
    /\ op' = "new"
    /\ arg' = a
    /\ err' = new_err(a)
    /\ cube' = IF new_err(a) = "none" THEN NewCube(a.val) ELSE NoCube
    /\ UNCHANGED <<pce, direction, axis, old_pcs, old_pce, pce0, trail, calls>>
    /\ UNCHANGED <<layer_arg, old_cube>>

\* cube.rotate(d)
Rotate(d) ==
    /\ cube # NoCube
    /\ calls < MaxCalls
    /\ op' = "rotate"
    /\ direction' = d
    /\ err' = rotate_err(cube, d)
    /\ axis' = rotate_axis(cube, d)
    /\ old_pcs' = cube.pcs
    /\ cube' = [cube EXCEPT !.pcs = rotate_pcs(cube, d)]
    /\ calls' = calls + 1
    /\ layer_arg' = NoLayer
    /\ old_cube' = cube
    /\ UNCHANGED <<pce, arg, old_pce, pce0, trail>>

\* cube._get_layout(l[1], l[2])
GetLayout(l) ==
    /\ cube # NoCube
    /\ op' = "_get_layout"
    /\ layer_arg' = l
    /\ err' = get_layout_err(cube, l[1])
    /\ old_cube' = cube
    /\ cube' = get_layout_cube(cube, l[1])
    /\ UNCHANGED <<pce, arg, direction, axis, old_pcs, old_pce, pce0, trail, calls>>

\* cube.layout: six reads by _get_layout
Layout ==
    /\ cube # NoCube
    /\ op' = "layout"
    /\ layer_arg' = NoLayer
    /\ err' = layout_err(cube)
    /\ old_cube' = cube
    /\ cube' = layout_cube(cube)
    /\ UNCHANGED <<pce, arg, direction, axis, old_pcs, old_pce, pce0, trail, calls>>

Next ==
    \/ \E a \in SizeArgs : New(a)
    \/ \E d \in DirectionInputs : Rotate(d)

Spec == Init /\ [][Next]_vars

\* The cube's lifecycle with the face reads: construction, rotate calls and,
\* at any point after construction, reads
NextRead ==
    \/ \E a \in SizeArgs : New(a)
    \/ \E d \in ReadDirections : Rotate(d)
    \/ \E l \in LayerInputs : GetLayout(l)
    \/ Layout

SpecRead == Init /\ [][NextRead]_vars

\* A stand-alone piece has been constructed
InitPiece ==
    /\ cube = NoCube
    /\ pce \in PieceInputs
    /\ pce0 = pce
    /\ old_pce = pce
    /\ op = "piece_new"
    /\ arg = NoArg
    /\ direction = << >>
    /\ axis = ""
    /\ err = "none"
    /\ old_pcs = << >>
    /\ trail = << >>
    /\ calls = 0
    /\ layer_arg = NoLayer
    /\ old_cube = NoCube

\* pce.rotate(a)
PieceRotate(a) ==
    /\ op \in {"piece_new", "piece_rotate"}
    /\ Len(trail) < MaxTurns
    /\ op' = "piece_rotate"
    /\ axis' = a
    /\ err' = piece_rotate_err(a)
    /\ old_pce' = pce
    /\ pce' = piece_rotate_pce(pce, a)
    /\ trail' = IF AxisOk(a) THEN Append(trail, a) ELSE trail
    /\ UNCHANGED <<cube, arg, direction, old_pcs, pce0, calls, layer_arg, old_cube>>

NextPiece == \E a \in AxisInputs : PieceRotate(a)

SpecPiece == InitPiece /\ [][NextPiece]_vars

(***************************************************************************)
(* Properties                                                              *)
(***************************************************************************)
Built == cube # NoCube

\* the colour slot of piece p for the signed direction (a, sign), a in 1..3
Slot(p, a, sign) == colours(p)[a][IF sign = 1 THEN 1 ELSE 2]

\* how many of the six slots of p are painted
Populated(p) ==
    Cardinality({<<a, sign>> \in (1..3) \X {1, -1} : Slot(p, a, sign) # None})

\* on how many axes p sits at an extremum
Extrema(p, e2) == Cardinality({a \in 1..3 : Abs(p.pos[a]) = e2})

\* C1: in every state reached from a fresh cube by turns, each piece's slot
\* for (axis, sign) is painted exactly when the piece's coordinate on that
\* axis is sign*edge_val, so the painted count is the number of extrema.
C1_SlotsFollowPosition ==
    Built =>
        \A k \in 1..Len(cube.pcs) :
            /\ \A a \in 1..3, sign \in {1, -1} :
                  (Slot(cube.pcs[k], a, sign) # None)
                      <=> (cube.pcs[k].pos[a] = sign * cube.edge_val)
            /\ Populated(cube.pcs[k]) = Extrema(cube.pcs[k], cube.edge_val)

\* C2: four turns of a piece about one axis give back its position and its
\* six colour slots.
C2_FourTurnsIdentity ==
    (Len(trail) = 4 /\ \A k \in 1..4 : trail[k] = trail[1]) => pce = pce0

\* the axis the face letter of a token stands for
LetterAxis(s) ==
    CASE s \in {"L", "R", "l", "r", "x"} -> "x"
      [] s \in {"T", "D", "t", "d", "y"} -> "y"
      [] s \in {"F", "B", "f", "b", "z"} -> "z"
      [] OTHER -> ""

\* C3: a rotate call with a token of the legal set of the cube's size
\* returns without an error, having resolved the axis of its face letter.
C3_LegalTokenRotates ==
    (op = "rotate" /\ direction \in valid_directions(cube.size))
        => (err = "none" /\ axis = LetterAxis(direction[1]))

\* C4: a rotate call with a token outside the legal set fails, and no
\* failing rotate call changes a piece.
C4_FailedRotateChangesNothing ==
    op = "rotate" =>
        /\ direction \notin valid_directions(cube.size) => err # "none"
        /\ err # "none" => cube.pcs = old_pcs

\* a rotate call failed on an illegal token after an earlier call had turned
\* pieces, and the turned cube is as it was before the failed call
C4_Witness ==
    /\ op = "rotate"
    /\ calls = 2
    /\ direction = Tok("r", 8, << >>)
    /\ err = "ValueError"
    /\ cube.pcs = old_pcs
    /\ cube.pcs # NewCube(cube.size).pcs

\* C5: from every state, for every outer face M, rotate(M) and then
\* rotate(M') both return and leave every piece as it was before them.
C5_MoveThenPrime ==
    Built =>
        \A m \in _directions_outer :
            LET c1 == [cube EXCEPT !.pcs = rotate_pcs(cube, <<m>>)]
            IN  /\ rotate_err(cube, <<m>>) = "none"
                /\ rotate_err(c1, <<m, "'">>) = "none"
                /\ rotate_pcs(c1, <<m, "'">>) = cube.pcs

\* the pieces of a cube with n painted slots
WithSlots(c, n) == {k \in 1..Len(c.pcs) : Populated(c.pcs[k]) = n}

\* C6: Cube(size) holds 6*size^2 - 12*size + 8 pieces: 8 with three painted
\* slots, 12*(size-2) with two and 6*(size-2)^2 with one.
C6_PieceCounts ==
    (op = "new" /\ err = "none") =>
        /\ Len(cube.pcs) = 6 * cube.size * cube.size - 12 * cube.size + 8
        /\ Cardinality(WithSlots(cube, 3)) = 8
        /\ Cardinality(WithSlots(cube, 2)) = 12 * (cube.size - 2)
        /\ Cardinality(WithSlots(cube, 1)) = 6 * (cube.size - 2) * (cube.size - 2)

\* C7: coord_vals has size entries, distinct, one apart (two, doubled),
\* symmetric about zero, the largest magnitude being edge_val = (size-1)/2
\* (size-1, doubled, for odd sizes and for even ones); zero is among them
\* exactly for odd sizes.
C7_CoordinateSystem ==
    (op = "new" /\ err = "none") =>
        LET cv == cube.coord_vals
        IN  /\ Len(cv) = cube.size
            /\ \A i, j \in 1..Len(cv) : i # j => cv[i] # cv[j]
            /\ \A i \in 1..(Len(cv) - 1) : cv[i + 1] = cv[i] + 2
            /\ \A i \in 1..Len(cv) : -1 * cv[i] \in Elems(cv)
            /\ \A i \in 1..Len(cv) : Abs(cv[i]) <= cube.edge_val
            /\ cube.edge_val \in Elems(cv)
            /\ cube.edge_val = cube.size - 1
            /\ (0 \in Elems(cv)) <=> (cube.size % 2 = 1)

\* C8: the constructor returns a cube exactly when its argument is an
\* integer of at least 2; otherwise it raises and there is no cube.
C8_ConstructionGuard ==
    op = "new" =>
        /\ (err = "none") <=> (arg.type \in {"int", "bool"} /\ arg.val >= 2)
        /\ err # "none" => cube = NoCube
        /\ err = "none" => (cube # NoCube /\ cube.size = arg.val)

\* Cube(1) raised ValueError and left no cube
C8_Witness ==
    /\ op = "new"
    /\ arg = [type |-> "int", val |-> 1]
    /\ err = "ValueError"
    /\ cube = NoCube

\* C9: a quarter turn maps the position (x,y,z) to (x,-z,y) about x, to
\* (z,y,-x) about y and to (-y,x,z) about z.
C9_PositionMap ==
    (op = "piece_rotate" /\ err = "none") =>
        LET o == old_pce.pos
        IN  /\ axis = "x" => pce.pos = <<o[1], 0 - o[3], o[2]>>
            /\ axis = "y" => pce.pos = <<o[3], o[2], 0 - o[1]>>
            /\ axis = "z" => pce.pos = <<0 - o[2], o[1], o[3]>>

\* the piece at (1, 0, -1) was turned about x and is at (1, 1, 0)
C9_Witness ==
    /\ op = "piece_rotate"
    /\ err = "none"
    /\ axis = "x"
    /\ old_pce.pos = <<2, 0, -2>>
    /\ pce.pos = <<2, 2, 0>>

PlainInner(d) ==
    /\ Len(d) >= 1
    /\ d[1] \in InnerLetters
    /\ \A k \in 1..Len(d) : d[k] = d[1]

\* C11: on a cube of size n, rotate accepts a lowercase face letter repeated
\* k times exactly when 1 <= k <= n-2 (it does not reject it as an invalid
\* direction), and rejects it when k >= n-1.
C11_InnerDepthRange ==
    (op = "rotate" /\ PlainInner(direction)) =>
        ((err # "ValueError") <=> (Len(direction) <= cube.size - 2))

\* the positive quarter turns that turn a layer clockwise (no suffix),
\* counter-clockwise (') or half way (2) as seen from the face of the letter:
\* clockwise seen from a positive-side face is three positive quarter turns
QuarterTurns(d) ==
    LET positive == d[1] \in {"R", "T", "F", "r", "t", "f"}
    IN  IF Last(d) = "2" THEN 2
        ELSE IF Last(d) = "'" THEN (IF positive THEN 1 ELSE 3)
        ELSE (IF positive THEN 3 ELSE 1)

\* C12: a rotate call that returns has turned every piece it changed by the
\* quarter turns that the face side and the suffix fix, a number in 1..3;
\* an unsuffixed L, D, B takes as many as the primed R, T, F, and the primed
\* L, D, B as many as the unsuffixed R, T, F.
C12_QuarterTurns ==
    /\ (op = "rotate" /\ err = "none") =>
          /\ QuarterTurns(direction) \in 1..3
          /\ \A k \in 1..Len(cube.pcs) :
                cube.pcs[k] \in
                    {old_pcs[k], rotate_n(old_pcs[k], axis, QuarterTurns(direction))}
    /\ Built =>
          \A pair \in {<<"L", "R">>, <<"D", "T">>, <<"B", "F">>} :
              /\ num_rotations(<<pair[1]>>) = num_rotations(<<pair[2], "'">>)
              /\ num_rotations(<<pair[1], "'">>) = num_rotations(<<pair[2]>>)
              /\ num_rotations(<<pair[1], "2">>) = 2
              /\ num_rotations(<<pair[2], "2">>) = 2
              /\ num_rotations(<<pair[2]>>) = 3
              /\ num_rotations(<<pair[1]>>) = 1

\* rotate("fff") returned on a size-9 cube: the pieces it changed have made
\* three positive quarter turns about z
C12_Witness ==
    /\ op = "rotate"
    /\ err = "none"
    /\ cube.size = 9
    /\ direction = Tok("f", 3, << >>)
    /\ \E k \in 1..Len(cube.pcs) :
          /\ cube.pcs[k] # old_pcs[k]
          /\ cube.pcs[k].pos = rotate_pos(rotate_pos(rotate_pos(old_pcs[k].pos, "z"), "z"), "z")
          /\ cube.pcs[k].pos # rotate_pos(old_pcs[k].pos, "z")

\* the index into pos (from 1) of the axis of a face letter
LetterIndex(s) ==
    CASE LetterAxis(s) = "x" -> 1
      [] LetterAxis(s) = "y" -> 2
      [] LetterAxis(s) = "z" -> 3

\* the side of the axis the face of a letter is on
LetterSign(s) == IF s \in {"R", "T", "F", "r", "t", "f"} THEN 1 ELSE -1

\* C13: a rotate call with an outer-face token turns exactly the pieces whose
\* coordinate on the axis is +edge_val (R, T, F) or -edge_val (L, D, B),
\* each by num_rotations quarter turns, and leaves every other piece.
C13_OuterLayer ==
    (op = "rotate" /\ Len(direction) >= 1 /\ direction[1] \in _directions_outer
        /\ direction \in valid_directions(cube.size)) =>
        /\ err = "none"
        /\ \A k \in 1..Len(cube.pcs) :
              cube.pcs[k] =
                  IF old_pcs[k].pos[LetterIndex(direction[1])]
                        = LetterSign(direction[1]) * cube.edge_val
                  THEN rotate_n(old_pcs[k], LetterAxis(direction[1]),
                                QuarterTurns(direction))
                  ELSE old_pcs[k]

\* the coordinate (doubled) of the layer at the given depth from the face of
\* letter s: depth 0 is the face's own outer layer, each layer one further in
DepthCoord(self, s, depth) ==
    LetterSign(s) * (self.edge_val - 2 * depth)

\* a single-layer inner token: a lowercase face letter repeated, then an
\* optional ' or 2
SingleInner(d) ==
    /\ Len(d) >= 1
    /\ d[1] \in InnerLetters
    /\ ~Wide(d)

\* C14: a rotate call with a single-layer inner token of n letters turns
\* exactly the pieces of the layer at depth n from the named face's own side.
C14_InnerLayerDepth ==
    (op = "rotate" /\ err = "none" /\ SingleInner(direction)) =>
        \A k \in 1..Len(cube.pcs) :
            (cube.pcs[k] # old_pcs[k])
                <=> (old_pcs[k].pos[LetterIndex(direction[1])]
                        = DepthCoord(cube, direction[1], Count(direction)))

\* a wide token: a lowercase face letter repeated, then w
WideInner(d) ==
    /\ Len(d) >= 2
    /\ d[1] \in InnerLetters
    /\ Last(d) = "w"

\* C15: a rotate call with a wide token of depth n turns the pieces of the
\* layers at depths 0 to n from the named face and leaves every other piece;
\* a legal wide token is one rotate returns on.
C15_WideLayers ==
    (op = "rotate" /\ WideInner(direction)
        /\ direction \in valid_directions(cube.size)) =>
        /\ err = "none"
        /\ \A k \in 1..Len(cube.pcs) :
              cube.pcs[k] =
                  IF \E depth \in 0..Count(direction) :
                        old_pcs[k].pos[LetterIndex(direction[1])]
                            = DepthCoord(cube, direction[1], depth)
                  THEN rotate_n(old_pcs[k], LetterAxis(direction[1]),
                                QuarterTurns(direction))
                  ELSE old_pcs[k]

\* the cube after rotate(d), and whether the call returned
After(self, d) == [self EXCEPT !.pcs = rotate_pcs(self, d)]
Returns(self, d) == rotate_err(self, d) = "none"

\* C16: rotate(x), rotate(y) and rotate(z) return, take every coordinate
\* value of the axis as the affected set, and made four times in a row leave
\* every piece as it was.
C16_WholeCubeFourTimes ==
    Built =>
        \A a \in _directions_rotate :
            LET c1 == After(cube, <<a>>)
                c2 == After(c1, <<a>>)
                c3 == After(c2, <<a>>)
                c4 == After(c3, <<a>>)
            IN  /\ Returns(cube, <<a>>) /\ Returns(c1, <<a>>)
                /\ Returns(c2, <<a>>) /\ Returns(c3, <<a>>)
                /\ Elems(layer_vals(cube, <<a>>)) = Elems(cube.coord_vals)
                /\ c4.pcs = cube.pcs

\* C17: from every state, for every outer face M, rotate(M2) returns and
\* leaves the cube as rotate(M) made twice does, and rotate(M2) made twice
\* leaves every piece as it was.
C17_HalfTurns ==
    Built =>
        \A m \in _directions_outer :
            LET h1 == After(cube, <<m, "2">>)
                h2 == After(h1, <<m, "2">>)
                q1 == After(cube, <<m>>)
                q2 == After(q1, <<m>>)
            IN  /\ Returns(cube, <<m, "2">>) /\ Returns(h1, <<m, "2">>)
                /\ Returns(cube, <<m>>) /\ Returns(q1, <<m>>)
                /\ h1.pcs = q2.pcs
                /\ h2.pcs = cube.pcs

\* the cells (row, column from 1) where two grids of one size differ
Differ(g, h) ==
    {rc \in (1..Len(g)) \X (1..Len(g)) : g[rc[1]][rc[2]] # h[rc[1]][rc[2]]}

\* the cells of one row or of one column
OneLine(cells) ==
    \/ \A p, q \in cells : p[1] = q[1]
    \/ \A p, q \in cells : p[2] = q[2]

\* the label of the face whose cells a clockwise turn of the right face
\* brings onto the face: front to top, top to back, back to down, down to front
CarriedByR(layer) ==
    CASE layer = "T" -> COLOURS_R[2]
      [] layer = "B" -> COLOURS_W[2]
      [] layer = "D" -> COLOURS_O[2]
      [] layer = "F" -> COLOURS_Y[2]

\* C18: on a fresh size-3 cube rotate("R") returns; the right face is still
\* all its own colour, the left face is as before, and each of the front,
\* top, back and down faces differs from before in exactly one line of three
\* cells, which carries the colour of the face before it in the turn.
C18_RightTurnFaces ==
    (op = "rotate" /\ calls = 1 /\ cube.size = 3 /\ direction = <<"R">>) =>
        LET before == [cube EXCEPT !.pcs = old_pcs]
        IN  /\ err = "none"
            /\ \A f \in Faces : get_layout_err(cube, f) = "none"
            /\ \A r, c \in 1..3 : get_layout(cube, "R", TRUE)[r][c] = COLOURS_B[2]
            /\ get_layout(cube, "L", TRUE) = get_layout(before, "L", TRUE)
            /\ \A f \in {"F", "T", "B", "D"} :
                  LET d == Differ(get_layout(cube, f, TRUE), get_layout(before, f, TRUE))
                  IN  /\ Cardinality(d) = 3
                      /\ OneLine(d)
                      /\ \A rc \in d :
                            get_layout(cube, f, TRUE)[rc[1]][rc[2]] = CarriedByR(f)

\* the colour label a fresh cube shows on a face
FaceLabel(layer) ==
    CASE layer = "R" -> "B"
      [] layer = "L" -> "G"
      [] layer = "T" -> "W"
      [] layer = "D" -> "Y"
      [] layer = "F" -> "R"
      [] layer = "B" -> "O"

\* C19: on a fresh cube of any size, _get_layout(face, True) returns for each
\* of the six faces a size x size grid with the face's colour label in every
\* cell.
C19_FreshFaces ==
    (op = "new" /\ err = "none") =>
        \A f \in Faces :
            /\ get_layout_err(cube, f) = "none"
            /\ Len(get_layout(cube, f, TRUE)) = cube.size
            /\ \A r \in 1..cube.size :
                  /\ Len(get_layout(cube, f, TRUE)[r]) = cube.size
                  /\ \A c \in 1..cube.size :
                        get_layout(cube, f, TRUE)[r][c] = FaceLabel(f)

\* C20: in every state and for each face, the pieces painted on the face are
\* written at rows and columns within 0..size-1, and every cell of the grid
\* is written by exactly one piece.
C20_OnePiecePerCell ==
    Built =>
        \A f \in Faces :
            /\ \A k \in 1..Len(cube.pcs) :
                  FaceColour(cube.pcs[k], f) # None =>
                      /\ RowIndex(cube, cube.pcs[k], f) \in 0..(cube.size - 1)
                      /\ ColIndex(cube, cube.pcs[k], f) \in 0..(cube.size - 1)
            /\ \A r, c \in 0..(cube.size - 1) :
                  Cardinality(Writers(cube, f, r, c)) = 1

\* the positions the pieces of a cube occupy
Positions(self) == {self.pcs[k].pos : k \in 1..Len(self.pcs)}

\* C21: in every state the cube has as many pieces as at construction, the
\* pieces occupy the set of positions occupied at construction, and no two
\* pieces are at one position.
C21_PiecesPermuted ==
    Built =>
        /\ Len(cube.pcs) = Len(NewCube(cube.size).pcs)
        /\ Positions(cube) = Positions(NewCube(cube.size))
        /\ Cardinality(Positions(cube)) = Len(cube.pcs)

\* how many of the six slots of p hold the value v (a colour or None)
SlotCount(p, v) ==
    Cardinality({<<a, sign>> \in (1..3) \X {1, -1} : Slot(p, a, sign) = v})

\* C22: a quarter turn of a piece leaves the number of its slots holding
\* each colour, and the number holding none, as it was before the turn.
C22_SlotValuesKept ==
    (op = "piece_rotate" /\ err = "none") =>
        \A v \in COLOURS_ALL \cup {None} : SlotCount(pce, v) = SlotCount(old_pce, v)

\* C23: a quarter turn of a piece about a token other than x, y or z raises
\* an error and leaves the piece's position and its six colour slots as they
\* were.
C23_BadAxisChangesNothing ==
    (op = "piece_rotate" /\ axis \notin {"x", "y", "z"}) =>
        /\ err # "none"
        /\ pce.pos = old_pce.pos
        /\ colours(pce) = colours(old_pce)

\* a piece that earlier turns had moved was turned about "w": the call
\* raised ValueError and the piece is where the earlier turns left it
C23_Witness ==
    /\ op = "piece_rotate"
    /\ axis = "w"
    /\ err = "ValueError"
    /\ Len(trail) = 2
    /\ pce = old_pce
    /\ pce.pos # pce0.pos

\* C24: a face read (_get_layout of any argument, or layout), whether it
\* returns or raises, leaves the cube as it was before the read: every
\* piece's position and colour slots, the order of the pieces, coord_vals,
\* edge_val and size.
C24_ReadsChangeNothing ==
    op \in {"_get_layout", "layout"} =>
        /\ cube = old_cube
        /\ cube.pcs = old_cube.pcs
        /\ cube.coord_vals = old_cube.coord_vals
        /\ cube.edge_val = old_cube.edge_val

\* _get_layout("X", True) raised ValueError on a cube that a rotate call had
\* turned, after a read that returned, and the cube is still the turned one
C24_Witness ==
    /\ op = "_get_layout"
    /\ layer_arg = <<"X", TRUE>>
    /\ err = "ValueError"
    /\ cube.size = 7
    /\ direction = Tok("r", 2, <<"'">>)
    /\ cube.pcs = rotate_pcs(NewCube(7), direction)
    /\ cube.pcs # NewCube(7).pcs
    /\ cube = old_cube

\* the painted colour slots of all the pieces of a cube
Facelets(self) ==
    {<<k, a, sign>> \in (1..Len(self.pcs)) \X (1..3) \X {1, -1} :
        Slot(self.pcs[k], a, sign) # None}

AxisIndex(a) ==
    CASE a = "x" -> 1
      [] a = "y" -> 2
      [] a = "z" -> 3

\* C26: a quarter turn of a piece about a leaves the piece's coordinate on a
\* and its colour slots +a and -a as they were, and so do the 1 to 3 quarter
\* turns in a row of one Cube.rotate call leave the coordinate on a.
C26_AxisUntouched ==
    (op = "piece_rotate" /\ err = "none") =>
        /\ pce.pos[AxisIndex(axis)] = old_pce.pos[AxisIndex(axis)]
        /\ Slot(pce, AxisIndex(axis), 1) = Slot(old_pce, AxisIndex(axis), 1)
        /\ Slot(pce, AxisIndex(axis), -1) = Slot(old_pce, AxisIndex(axis), -1)
        /\ \A n \in 1..3 :
              rotate_n(old_pce, axis, n).pos[AxisIndex(axis)]
                  = old_pce.pos[AxisIndex(axis)]

\* a piece with six different colours was turned about y: it moved, and its
\* +y and -y slots hold what they held
C26_Witness ==
    /\ op = "piece_rotate"
    /\ err = "none"
    /\ axis = "y"
    /\ old_pce = FullPiece(<<2, 0, -2>>)
    /\ pce.pos = <<-2, 0, -2>>
    /\ pce.col_yp = COLOURS_W
    /\ pce.col_yn = COLOURS_Y
    /\ pce.col_xp # old_pce.col_xp

\* C27: in every state, every component of every piece's position is one of
\* the cube's coord_vals, and at least one component is edge_val or -edge_val.
C27_PositionsInSystem ==
    Built =>
        LET cv == Elems(cube.coord_vals)
        IN  \A k \in 1..Len(cube.pcs) :
                /\ \A a \in 1..3 : cube.pcs[k].pos[a] \in cv
                /\ Visible(cube.pcs[k].pos, cube.edge_val)

\* two rotate calls returned on a size-9 cube, the second about another axis
\* than the first, and moved pieces; every position is within the system
C27_Witness ==
    /\ op = "rotate"
    /\ err = "none"
    /\ calls = 2
    /\ cube.size = 9
    /\ direction = Tok("t", 3, <<"w">>)
    /\ cube.pcs # old_pcs
    /\ old_pcs # NewCube(9).pcs
    /\ \E k \in 1..Len(cube.pcs) :
          /\ cube.pcs[k].pos # old_pcs[k].pos
          /\ old_pcs[k].pos # NewCube(9).pcs[k].pos
    /\ \A k \in 1..Len(cube.pcs) :
          /\ \A a \in 1..3 : cube.pcs[k].pos[a] \in Elems(cube.coord_vals)
          /\ Visible(cube.pcs[k].pos, cube.edge_val)

\* C28: reading colours after an assignment gives the tuple assigned: after
\* a quarter turn, which assigns colours the moved tuple of the colours it
\* read before, the piece's colours are that tuple.
C28_ColoursRoundTrip ==
    (op = "piece_rotate" /\ err = "none") =>
        colours(pce) = rotate_colours(colours(old_pce), axis)

====
